---- MODULE Spec2Model ----
(***************************************************************************)
(* Whiteboard synchronisation servers of the repository.                   *)
(*                                                                         *)
(*   part_000  : in-memory board per node, synchronised over the Redis     *)
(*               pub/sub channel "whiteboard-events".                      *)
(*   server.js : board persisted in the Redis list "whiteboard:strokes",   *)
(*               async handlers, fan-out through the Socket.IO adapter.    *)
(*                                                                         *)
(* A behaviour runs one of the two programs (variable server) on two nodes *)
(* that share one Redis.  Connections are established in the initial state *)
(* (the io.on("connection") callback has run, userId = null).              *)
(***************************************************************************)
EXTENDS Integers, Sequences, FiniteSets, Bags, TLC

\* ------------------------------------------------------------------ bounds
\* Client events (register, draw, clear-all, clear-mine) a run of server.js accepts.
MaxOps == 4
\* Client events a run of part_000 accepts.
MaxPubSubOps == 3
\* Gestures (start, draw, end, clear) a run of the Yjs whiteboard accepts.
MaxYjsOps == 3

\* ------------------------------------------------------------- the universe
Null == "null"                     \* JS null / an absent field
Nodes == {"n1", "n2"}
Conns == {"a", "b", "c"}           \* socket ids
Users == {"u1"}                    \* client-declared user ids
StrokeIds == {1}                   \* payload contents of a draw event
Programs == {"part_000", "server.js"}

NodeOf(c) == IF c = "c" THEN "n2" ELSE "n1"
Local(n) == {c \in Conns : NodeOf(c) = n}

\* socket.id.slice(0, 5).toUpperCase()
DerivedUserId(c) == CASE c = "a" -> "A" [] c = "b" -> "B" [] c = "c" -> "C"

\* A stroke is the payload of a draw event: {id, userId}.  NoData stands for
\* an absent object.
NoData == [id |-> 0, userId |-> Null]
Payloads == [id : StrokeIds, userId : Users \cup {Null}]

VARIABLES
    server,        \* which program runs
    proc,          \* per node, how far the process has got in starting up
    redisClient,   \* per node, the state of each Redis client it created
    ops,           \* client events accepted so far
    userId,        \* per connection: `let userId` of the connection closure
    userInfo,      \* per connection: the userId of the last `user-info` event it was sent
    readFailure,   \* per connection: its register's read of the list failed: "no", "pending", "served"
    strokes,       \* part_000: per node, `let strokes = []`
    chan,          \* part_000: per node, "whiteboard-events" messages not yet handled
    redisList,     \* server.js: the Redis list REDIS_KEY, head first, JSON strings
    replyq,        \* server.js: per node, handlers suspended at an await whose command Redis has executed
    batch,         \* server.js: per node, how many of the oldest replies are in the batch of replies being handled
    adq,           \* per node, events the Socket.IO Redis adapter has still to hand to the node
    board,         \* per connection, the client's canvas as the server's events leave it
    drawEvents,    \* per connection, the strokes it was sent as `draw` events
    drawsSeen,     \* per connection, how many `draw` events it was sent
    drawOps,       \* history: how many draw events the clients have sent
    drew,          \* history: the connections that have sent a draw event
    stamped,       \* history: the strokes drawn, each with the user id its connection had then
    tombstones,    \* history: strokes a clear removed from the Redis list, not drawn again since
    clearedMine,   \* history: strokes a clear-mine removed for their owner, not drawn again since
    clientID,      \* Yjs: per session, `ydoc.clientID` of the browser's document
    connected,     \* Yjs: the sessions whose socket the server has accepted
    ydoc,          \* Yjs: per session, the items of `ydoc.getArray("lines")`, deleted ones included
    isDrawing,     \* Yjs: per session, the `isDrawing` state of App
    serverDoc,     \* Yjs: per node, the items of the server's `ydoc`
    up,            \* Yjs: per session, `sync-update` events on their way to its node
    down,          \* Yjs: per session, `sync-initial`/`sync-update` events on their way to it
    yadq,          \* Yjs: per node, broadcasts the adapter has still to hand to the node
    yops           \* Yjs: gestures made so far

vars == <<server, proc, redisClient, ops, userId, userInfo, readFailure, strokes, chan, redisList, replyq, batch, adq, board,
          drawEvents, drawsSeen, drawOps, drew, stamped, tombstones, clearedMine,
          clientID, connected, ydoc, isDrawing, serverDoc, up, down, yadq, yops>>

\* the state of the Yjs whiteboard, and the state of the other programs
yjsVars == <<clientID, connected, ydoc, isDrawing, serverDoc, up, down, yadq, yops>>
wbVars == <<server, proc, redisClient, ops, userId, userInfo, readFailure, strokes, chan, redisList, replyq, batch, adq,
            board, drawEvents, drawsSeen, drawOps, drew, stamped, tombstones, clearedMine>>

\* the start-up state of the processes
startVars == <<proc, redisClient>>

\* what a register leaves besides the user id
registerVars == <<userInfo, readFailure>>

\* ------------------------------------------------------------- helpers
Range(s) == {s[i] : i \in 1..Len(s)}
Reverse(s) == [i \in 1..Len(s) |-> s[Len(s) + 1 - i]]
\* strokes.filter((s) => s.userId !== targetUser)
RECURSIVE FilterOut(_, _)
FilterOut(s, u) ==
    IF s = <<>> THEN <<>>
    ELSE IF Head(s).userId /= u THEN <<Head(s)>> \o FilterOut(Tail(s), u)
    ELSE FilterOut(Tail(s), u)
Count(x, s) == Cardinality({i \in 1..Len(s) : s[i] = x})

\* JSON.stringify / JSON.parse of a stroke object
Stringify(s) == <<s.id, s.userId>>
Parse(t) == [id |-> t[1], userId |-> t[2]]

\* the slip { userId, ...data }: a userId of the payload overrides the server's
WithUserPayloadLast(data, uid) ==
    [id |-> data.id, userId |-> IF data.userId /= Null THEN data.userId ELSE uid]

\* const withUser = { ...data, userId }
WithUser(data, uid) == [id |-> data.id, userId |-> uid]

\* data?.userId || socket.id.slice(0, 5).toUpperCase()
RegisteredId(c, declared) == IF declared /= Null THEN declared ELSE DerivedUserId(c)

\* ------------------------------------------------------- events to clients
\* An event is {type, strokes}: init-board and reset-board carry the board,
\* draw carries one stroke, clear-all none.
Event(type, ss) == [type |-> type, strokes |-> ss]

\* The client's handling of a server event (spec section 6): init-board and
\* reset-board replace the canvas, draw adds a stroke, clear-all empties it.
ClientApply(b, ev) ==
    CASE ev.type = "init-board" -> Range(ev.strokes)
      [] ev.type = "reset-board" -> Range(ev.strokes)
      [] ev.type = "draw" -> b \cup Range(ev.strokes)
      [] ev.type = "clear-all" -> {}

\* The sockets `targets` of this node are sent ev.
DeliverTo(targets, ev) ==
    /\ board' = [c \in Conns |->
                    IF c \in targets THEN ClientApply(board[c], ev) ELSE board[c]]
    /\ drawEvents' = [c \in Conns |->
                    IF c \in targets /\ ev.type = "draw"
                    THEN drawEvents[c] \cup Range(ev.strokes) ELSE drawEvents[c]]
    /\ drawsSeen' = [c \in Conns |->
                    IF c \in targets /\ ev.type = "draw"
                    THEN drawsSeen[c] + 1 ELSE drawsSeen[c]]

\* The Redis adapter forwards a broadcast to every other node.
ToOtherNodes(n, ev) ==
    adq' = [m \in Nodes |-> IF m /= n THEN Append(adq[m], ev) ELSE adq[m]]

\* Who a broadcast reaches on the emitting node: io.emit reaches every local
\* socket, socket.broadcast.emit every local socket but the sender.
IoEmitTargets(n) == Local(n)
BroadcastTargets(c) == Local(NodeOf(c)) \ {c}

\* io.emit(ev) on node n
IoEmit(n, ev) == DeliverTo(IoEmitTargets(n), ev) /\ ToOtherNodes(n, ev)

\* socket.broadcast.emit(ev) on the socket c
BroadcastEmit(c, ev) == DeliverTo(BroadcastTargets(c), ev) /\ ToOtherNodes(NodeOf(c), ev)

\* socket.emit(ev) on the socket c
SocketEmit(c, ev) == DeliverTo({c}, ev) /\ UNCHANGED adq

\* A node takes a new event (a client's, or a forwarded broadcast) only
\* between batches.
Idle(n) == batch[n] = 0

\* A node hands a broadcast of another node to its own sockets.
AdapterDeliver(n) ==
    /\ adq[n] /= <<>>
    /\ Idle(n)
    /\ DeliverTo(Local(n), Head(adq[n]))
    /\ adq' = [adq EXCEPT ![n] = Tail(@)]
    /\ UNCHANGED <<server, yjsVars, startVars, registerVars, batch, ops, userId, strokes, chan, redisList, replyq,
                   drew, drawOps, stamped, tombstones, clearedMine>>

\* ---------------------------------------------------------------- Init
\* The Redis clients a program creates: pubClient, subClient and, in
\* part_000 and server.js, a third one for its commands.
RedisClients(program) ==
    IF program = "part_001" THEN {"pubClient", "subClient"}
    ELSE {"pubClient", "subClient", "commandClient"}

\* Every node has connected its clients and listens.
Started ==
    /\ proc = [n \in Nodes |-> "listening"]
    /\ redisClient = [n \in Nodes |-> [k \in RedisClients(server) |-> "ready"]]

\* `new Y.Doc()` draws a random client id: the sessions' ids are distinct
\* numbers in any order.  Only the Yjs whiteboard creates documents.
ClientIDs ==
    {f \in [Conns -> 1..Cardinality(Conns)] : \A c1, c2 \in Conns : c1 /= c2 => f[c1] /= f[c2]}

\* The Yjs documents are new, no socket is connected.
YjsFresh ==
    /\ clientID \in (IF server = "part_001" THEN ClientIDs ELSE {CHOOSE f \in ClientIDs : TRUE})
    /\ connected = {}
    /\ ydoc = [c \in Conns |-> <<>>]
    /\ isDrawing = [c \in Conns |-> FALSE]
    /\ serverDoc = [n \in Nodes |-> <<>>]
    /\ up = [c \in Conns |-> <<>>]
    /\ down = [c \in Conns |-> <<>>]
    /\ yadq = [n \in Nodes |-> <<>>]
    /\ yops = 0

\* Nothing has been drawn, sent or received.
NoTraffic ==
    /\ ops = 0
    /\ userId = [c \in Conns |-> Null]
    /\ userInfo = [c \in Conns |-> Null]
    /\ readFailure = [c \in Conns |-> "no"]
    /\ strokes = [n \in Nodes |-> <<>>]
    /\ chan = [n \in Nodes |-> EmptyBag]
    /\ redisList = <<>>
    /\ replyq = [n \in Nodes |-> <<>>]
    /\ batch = [n \in Nodes |-> 0]
    /\ adq = [n \in Nodes |-> <<>>]
    /\ board = [c \in Conns |-> {}]
    /\ drawEvents = [c \in Conns |-> {}]
    /\ drawsSeen = [c \in Conns |-> 0]
    /\ drawOps = 0
    /\ drew = {}
    /\ stamped = {}
    /\ tombstones = {}
    /\ clearedMine = {}
    /\ YjsFresh

Init ==
    /\ server \in Programs
    /\ Started
    /\ NoTraffic

\* =================================================================
\* part_000: in-memory board, Redis pub/sub
\* =================================================================

\* The envelopes on "whiteboard-events", as JSON.stringify writes them:
\* {type, data} for a draw, {type} for clear-all, {type, userId} for clear-user.
StringifyEnvelope(type, data, uid) == <<type, data.id, data.userId, uid>>
ParseEnvelope(t) == [type |-> t[1], data |-> [id |-> t[2], userId |-> t[3]], userId |-> t[4]]

\* commandClient.publish("whiteboard-events", message): every subscribed node
\* gets a copy.  Delivery order between messages is the broker's (spec 4.2:
\* at-least-once, possibly reordered), so a node's pending messages are a bag.
Publish(message) ==
    chan' = [n \in Nodes |-> chan[n] (+) SetToBag({message})]

\* what the client's session "clear-mine" puts on the channel
ClearMineMessage(uid) == StringifyEnvelope("clear-user", NoData, uid)

\* socket.on("register")
P_Register(c, declared) ==
    /\ server = "part_000"
    /\ ops < MaxPubSubOps
    /\ ops' = ops + 1
    /\ userId' = [userId EXCEPT ![c] = RegisteredId(c, declared)]
    /\ userInfo' = [userInfo EXCEPT ![c] = RegisteredId(c, declared)]
    /\ SocketEmit(c, Event("init-board", strokes[NodeOf(c)]))
    /\ UNCHANGED <<server, yjsVars, startVars, readFailure, batch, strokes, chan, redisList, replyq, drew, drawOps, stamped,
                   tombstones, clearedMine>>

\* socket.on("draw")
P_Draw(c, data) ==
    /\ server = "part_000"
    /\ ops < MaxPubSubOps
    /\ ops' = ops + 1
    /\ Publish(StringifyEnvelope("draw", WithUser(data, userId[c]), Null))
    /\ drew' = drew \cup {c}
    /\ drawOps' = drawOps + 1
    /\ stamped' = stamped \cup {[id |-> data.id, userId |-> userId[c]]}
    /\ UNCHANGED <<server, yjsVars, startVars, registerVars, batch, userId, strokes, redisList, replyq, adq, board,
                   drawEvents, drawsSeen, tombstones, clearedMine>>

\* socket.on("draw") when commandClient.publish fails: the handler has no
\* other effect than the publish, so nothing is left of the draw.
P_DrawPublishFails(c, data) ==
    /\ server = "part_000"
    /\ ops < MaxPubSubOps
    /\ ops' = ops + 1
    /\ drew' = drew \cup {c}
    /\ drawOps' = drawOps + 1
    /\ stamped' = stamped \cup {[id |-> data.id, userId |-> userId[c]]}
    /\ UNCHANGED <<server, yjsVars, startVars, registerVars, batch, userId, strokes, chan, redisList, replyq, adq,
                   board, drawEvents, drawsSeen, tombstones, clearedMine>>

\* socket.on("clear-all")
P_ClearAll(c) ==
    /\ server = "part_000"
    /\ ops < MaxPubSubOps
    /\ ops' = ops + 1
    /\ Publish(StringifyEnvelope("clear-all", NoData, Null))
    /\ UNCHANGED <<server, yjsVars, startVars, registerVars, batch, userId, strokes, redisList, replyq, adq, board,
                   drawEvents, drawsSeen, drew, drawOps, stamped, tombstones, clearedMine>>

\* socket.on("clear-mine")
P_ClearMine(c) ==
    /\ server = "part_000"
    /\ ops < MaxPubSubOps
    /\ ops' = ops + 1
    /\ Publish(ClearMineMessage(userId[c]))
    /\ UNCHANGED <<server, yjsVars, startVars, registerVars, batch, userId, strokes, redisList, replyq, adq, board,
                   drawEvents, drawsSeen, drew, drawOps, stamped, tombstones, clearedMine>>

\* a subscription handler that does not store the strokes it relays
HandleMessageDropsDraw(ss, msg) ==
    CASE msg.type = "draw" -> ss
      [] msg.type = "clear-all" -> <<>>
      [] msg.type = "clear-user" -> FilterOut(ss, msg.userId)

\* The store after the subscription handler has handled msg.
HandleMessage(ss, msg) ==
    CASE msg.type = "draw" -> Append(ss, msg.data)
      [] msg.type = "clear-all" -> <<>>
      [] msg.type = "clear-user" -> FilterOut(ss, msg.userId)

\* What the handler broadcasts after it changed the store to ss.
HandlerEvent(ss, msg) ==
    CASE msg.type = "draw" -> Event("draw", <<msg.data>>)
      [] msg.type = "clear-all" -> Event("clear-all", <<>>)
      [] msg.type = "clear-user" -> Event("reset-board", ss)

\* subClient.subscribe("whiteboard-events", (message) => ...) on node n
P_Deliver(n, message) ==
    /\ server = "part_000"
    /\ message \in BagToSet(chan[n])
    /\ chan' = [chan EXCEPT ![n] = @ (-) SetToBag({message})]
    /\ LET msg == ParseEnvelope(message)
           ss == HandleMessage(strokes[n], msg)
       IN /\ strokes' = [strokes EXCEPT ![n] = ss]
          /\ IoEmit(n, HandlerEvent(ss, msg))
    /\ UNCHANGED <<server, yjsVars, startVars, registerVars, batch, ops, userId, redisList, replyq, drew, drawOps, stamped,
                   tombstones, clearedMine>>

NextPubSub ==
    \/ \E c \in Conns, declared \in Users \cup {Null} : P_Register(c, declared)
    \/ \E c \in Conns, data \in Payloads : P_Draw(c, data)
    \/ \E c \in Conns, data \in Payloads : P_DrawPublishFails(c, data)
    \/ \E c \in Conns : P_ClearAll(c)
    \/ \E c \in Conns : P_ClearMine(c)
    \/ \E n \in Nodes : \E message \in BagToSet(chan[n]) : P_Deliver(n, message)
    \/ \E n \in Nodes : server = "part_000" /\ AdapterDeliver(n)

\* =================================================================
\* server.js: board in the Redis list, async handlers
\* =================================================================
\* A handler that awaits a Redis command is a task {conn, kind, pc, ...locals}.
\* A node's dbClient pipelines its commands over one connection, so Redis
\* executes a node's commands in the order the node issued them, and a command
\* is taken to execute when it is issued; its reply, and the handler's
\* continuation, come later (replyq, in command order).

Task(c, kind, pc, data, withUser, targetUser, ss, remainingStrokes) ==
    [conn |-> c, kind |-> kind, pc |-> pc, data |-> data, withUser |-> withUser,
     targetUser |-> targetUser, strokes |-> ss, remainingStrokes |-> remainingStrokes]

\* getFullBoardState(): lRange(REDIS_KEY, 0, -1), reversed, each entry parsed
GetFullBoardState(list) == [i \in 1..Len(list) |-> Parse(Reverse(list)[i])]

\* dbClient.lPush(REDIS_KEY, strokeString)
LPush(list, str) == <<str>> \o list

\* a del that leaves the list as it is
DelNothing(list) == list

\* dbClient.del(REDIS_KEY)
Del(list) == <<>>

\* dbClient.rPush(REDIS_KEY, remainingStrings)
RPush(list, strs) == list \o strs

\* remainingStrokes.map((s) => JSON.stringify(s))
StringifyAll(ss) == [i \in 1..Len(ss) |-> Stringify(ss[i])]

Await(n, task) == replyq' = [replyq EXCEPT ![n] = Append(@, task)]

\* getFullBoardState is itself an async function: a handler that awaits it
\* resumes one microtask after the reply.  The replies a node reads in one
\* chunk are resolved in one tick, so within such a batch the continuations
\* of the direct awaits (lPush, del, rPush) run first, in reply order, and
\* those of the getFullBoardState awaits after them; the node takes no other
\* event until the batch is done.
ViaGetFullBoardState(task) == task.pc = "getFullBoardState"

\* The sizes the batch may have: the one in progress, else one reply, or the
\* replies from a getFullBoardState reply up to a later direct one.
BatchSizes(n) ==
    IF batch[n] > 0 THEN {batch[n]}
    ELSE {1} \cup {k \in 2..Len(replyq[n]) :
                     ViaGetFullBoardState(replyq[n][1]) /\ ~ViaGetFullBoardState(replyq[n][k])}

\* The reply of a batch of k whose continuation runs next.
NextInBatch(n, k) ==
    LET direct == {j \in 1..k : ~ViaGetFullBoardState(replyq[n][j])}
    IN IF direct = {} THEN 1 ELSE CHOOSE j \in direct : \A j2 \in direct : j <= j2

\* A node runs the continuation of an answered await; it touches nothing of
\* the connections' identities.
Resumable(n, i) ==
    /\ server = "server.js"
    /\ replyq[n] /= <<>>
    /\ \E k \in BatchSizes(n) :
          /\ i = NextInBatch(n, k)
          /\ batch' = [batch EXCEPT ![n] = k - 1]
    /\ UNCHANGED <<server, yjsVars, startVars, userInfo, ops, userId, strokes, chan, drew, drawOps, stamped>>

\* The strokes of the stored list
Stored == {Parse(redisList[i]) : i \in 1..Len(redisList)}

\* socket.on("register") up to its await
S_Register(c, declared) ==
    /\ server = "server.js"
    /\ Idle(NodeOf(c))
    /\ ops < MaxOps
    /\ ops' = ops + 1
    /\ userId' = [userId EXCEPT ![c] = RegisteredId(c, declared)]
    /\ userInfo' = [userInfo EXCEPT ![c] = RegisteredId(c, declared)]
    /\ readFailure' = [readFailure EXCEPT ![c] = "no"]
    /\ Await(NodeOf(c), Task(c, "register", "getFullBoardState", NoData, NoData, Null,
                             GetFullBoardState(redisList), <<>>))
    /\ UNCHANGED <<server, yjsVars, startVars, batch, strokes, chan, redisList, adq, board, drawEvents, drawsSeen,
                   drew, drawOps, stamped, tombstones, clearedMine>>

\* socket.on("draw") up to its await
S_Draw(c, data) ==
    /\ server = "server.js"
    /\ Idle(NodeOf(c))
    /\ ops < MaxOps
    /\ ops' = ops + 1
    /\ LET withUser == WithUser(data, userId[c])
       IN /\ redisList' = LPush(redisList, Stringify(withUser))
          /\ Await(NodeOf(c), Task(c, "draw", "lPush", data, withUser, Null, <<>>, <<>>))
          /\ tombstones' = tombstones \ {Parse(Stringify(withUser))}
          /\ clearedMine' = clearedMine \ {Parse(Stringify(withUser))}
    /\ drew' = drew \cup {c}
    /\ drawOps' = drawOps + 1
    /\ stamped' = stamped \cup {[id |-> data.id, userId |-> userId[c]]}
    /\ UNCHANGED <<server, yjsVars, startVars, registerVars, batch, userId, strokes, chan, adq, board, drawEvents, drawsSeen>>

\* socket.on("clear-all") up to its await
S_ClearAll(c) ==
    /\ server = "server.js"
    /\ Idle(NodeOf(c))
    /\ ops < MaxOps
    /\ ops' = ops + 1
    /\ redisList' = Del(redisList)
    /\ tombstones' = tombstones \cup Stored
    /\ Await(NodeOf(c), Task(c, "clear-all", "del", NoData, NoData, Null, <<>>, <<>>))
    /\ UNCHANGED <<server, yjsVars, startVars, registerVars, batch, userId, strokes, chan, adq, board, drawEvents, drawsSeen,
                   drew, drawOps, stamped, clearedMine>>

\* socket.on("clear-mine") up to its first await
S_ClearMine(c) ==
    /\ server = "server.js"
    /\ Idle(NodeOf(c))
    /\ ops < MaxOps
    /\ ops' = ops + 1
    /\ Await(NodeOf(c), Task(c, "clear-mine", "getFullBoardState", NoData, NoData,
                             userId[c], GetFullBoardState(redisList), <<>>))
    /\ UNCHANGED <<server, yjsVars, startVars, registerVars, batch, userId, strokes, chan, redisList, adq, board,
                   drawEvents, drawsSeen, drew, drawOps, stamped, tombstones, clearedMine>>

\* getFullBoardState() that answers a failed read with the list all the same
GetFullBoardStateIgnoresError(list) == GetFullBoardState(list)

\* getFullBoardState() when lRange rejects: catch (e) { ...; return [] }
GetFullBoardStateFailed(list) == <<>>

\* socket.on("register") up to its await, the read of the list failing
S_RegisterReadFails(c, declared) ==
    /\ server = "server.js"
    /\ Idle(NodeOf(c))
    /\ ops < MaxOps
    /\ ops' = ops + 1
    /\ userId' = [userId EXCEPT ![c] = RegisteredId(c, declared)]
    /\ userInfo' = [userInfo EXCEPT ![c] = RegisteredId(c, declared)]
    /\ readFailure' = [readFailure EXCEPT ![c] = "pending"]
    /\ Await(NodeOf(c), Task(c, "register", "getFullBoardState", NoData, NoData, Null,
                             GetFullBoardStateFailed(redisList), <<>>))
    /\ UNCHANGED <<server, yjsVars, startVars, batch, strokes, chan, redisList, adq, board, drawEvents, drawsSeen,
                   drew, drawOps, stamped, tombstones, clearedMine>>

\* socket.on("clear-mine") up to its first await, the read of the list failing
S_ClearMineReadFails(c) ==
    /\ server = "server.js"
    /\ Idle(NodeOf(c))
    /\ ops < MaxOps
    /\ ops' = ops + 1
    /\ Await(NodeOf(c), Task(c, "clear-mine", "getFullBoardState", NoData, NoData,
                             userId[c], GetFullBoardStateFailed(redisList), <<>>))
    /\ UNCHANGED <<server, yjsVars, startVars, registerVars, batch, userId, strokes, chan, redisList,
                   adq, board, drawEvents, drawsSeen, drew, drawOps, stamped, tombstones, clearedMine>>

Without(q, i) == [j \in 1..(Len(q) - 1) |-> IF j < i THEN q[j] ELSE q[j + 1]]

\* the rest of socket.on("register")
S_RegisterDone(n, i) ==
    LET task == replyq[n][i] IN
    /\ Resumable(n, i)
    /\ task.kind = "register"
    /\ SocketEmit(task.conn, Event("init-board", task.strokes))
    /\ replyq' = [replyq EXCEPT ![n] = Without(@, i)]
    /\ readFailure' = [readFailure EXCEPT ![task.conn] = IF @ = "pending" THEN "served" ELSE @]
    /\ UNCHANGED <<redisList, tombstones, clearedMine>>

\* the rest of socket.on("draw")
S_DrawDone(n, i) ==
    LET task == replyq[n][i] IN
    /\ Resumable(n, i)
    /\ task.kind = "draw"
    /\ BroadcastEmit(task.conn, Event("draw", <<task.withUser>>))
    /\ replyq' = [replyq EXCEPT ![n] = Without(@, i)]
    /\ UNCHANGED <<redisList, tombstones, clearedMine, readFailure>>

\* the rest of socket.on("clear-all")
S_ClearAllDone(n, i) ==
    LET task == replyq[n][i] IN
    /\ Resumable(n, i)
    /\ task.kind = "clear-all"
    /\ IoEmit(n, Event("clear-all", <<>>))
    /\ replyq' = [replyq EXCEPT ![n] = Without(@, i)]
    /\ UNCHANGED <<redisList, tombstones, clearedMine, readFailure>>

\* socket.on("clear-mine") from the snapshot to `await dbClient.del`
S_ClearMineDel(n, i) ==
    LET task == replyq[n][i]
        remainingStrokes == FilterOut(task.strokes, task.targetUser)
        gone == {s \in Stored : s.userId = task.targetUser}
    IN
    /\ Resumable(n, i)
    /\ task.kind = "clear-mine" /\ task.pc = "getFullBoardState"
    /\ redisList' = Del(redisList)
    /\ tombstones' = tombstones \cup gone
    /\ clearedMine' = clearedMine \cup gone
    /\ replyq' = [replyq EXCEPT ![n] =
                    Append(Without(@, i),
                           [task EXCEPT !.pc = "del", !.remainingStrokes = remainingStrokes])]
    /\ UNCHANGED <<adq, board, drawEvents, drawsSeen, readFailure>>

\* socket.on("clear-mine") after the del: rewrite what remains, or finish
S_ClearMineRewrite(n, i) ==
    LET task == replyq[n][i] IN
    /\ Resumable(n, i)
    /\ task.kind = "clear-mine" /\ task.pc = "del"
    /\ IF Len(task.remainingStrokes) > 0
       THEN /\ redisList' = RPush(redisList, StringifyAll(task.remainingStrokes))
            /\ replyq' = [replyq EXCEPT ![n] = Append(Without(@, i), [task EXCEPT !.pc = "rPush"])]
            /\ UNCHANGED <<adq, board, drawEvents, drawsSeen>>
       ELSE /\ IoEmit(n, Event("reset-board", task.remainingStrokes))
            /\ replyq' = [replyq EXCEPT ![n] = Without(@, i)]
            /\ UNCHANGED redisList
    /\ UNCHANGED <<tombstones, clearedMine, readFailure>>

\* the end of socket.on("clear-mine") after the rPush
S_ClearMineDone(n, i) ==
    LET task == replyq[n][i] IN
    /\ Resumable(n, i)
    /\ task.kind = "clear-mine" /\ task.pc = "rPush"
    /\ IoEmit(n, Event("reset-board", task.remainingStrokes))
    /\ replyq' = [replyq EXCEPT ![n] = Without(@, i)]
    /\ UNCHANGED <<redisList, tombstones, clearedMine, readFailure>>

NextRedis ==
    \/ \E c \in Conns, declared \in Users \cup {Null} : S_Register(c, declared)
    \/ \E c \in Conns, data \in Payloads : S_Draw(c, data)
    \/ \E c \in Conns : S_ClearAll(c)
    \/ \E c \in Conns : S_ClearMine(c)
    \/ \E n \in Nodes : \E i \in 1..Len(replyq[n]) : S_RegisterDone(n, i)
    \/ \E n \in Nodes : \E i \in 1..Len(replyq[n]) : S_DrawDone(n, i)
    \/ \E n \in Nodes : \E i \in 1..Len(replyq[n]) : S_ClearAllDone(n, i)
    \/ \E n \in Nodes : \E i \in 1..Len(replyq[n]) : S_ClearMineDel(n, i)
    \/ \E n \in Nodes : \E i \in 1..Len(replyq[n]) : S_ClearMineRewrite(n, i)
    \/ \E n \in Nodes : \E i \in 1..Len(replyq[n]) : S_ClearMineDone(n, i)
    \/ \E n \in Nodes : server = "server.js" /\ AdapterDeliver(n)

\* =================================================================
\* server.js, one handler at a time, reads of the list may fail
\* =================================================================
\* No handler is suspended on any node.
AllIdle == \A n \in Nodes : replyq[n] = <<>>

\* draw payloads that tell two strokes of one user apart
SeqStrokeIds == {1, 2}
SeqPayloads == [id : SeqStrokeIds, userId : {Null}]

\* A client event is accepted only when every earlier handler has finished.
NextSeq ==
    \/ \E c \in Conns, declared \in Users \cup {Null} : AllIdle /\ S_Register(c, declared)
    \/ \E c \in Conns, declared \in Users \cup {Null} : AllIdle /\ S_RegisterReadFails(c, declared)
    \/ \E c \in Conns, data \in SeqPayloads : AllIdle /\ S_Draw(c, data)
    \/ \E c \in Conns : AllIdle /\ S_ClearAll(c)
    \/ \E c \in Conns : AllIdle /\ S_ClearMine(c)
    \/ \E c \in Conns : AllIdle /\ S_ClearMineReadFails(c)
    \/ \E n \in Nodes : \E i \in 1..Len(replyq[n]) : S_RegisterDone(n, i)
    \/ \E n \in Nodes : \E i \in 1..Len(replyq[n]) : S_DrawDone(n, i)
    \/ \E n \in Nodes : \E i \in 1..Len(replyq[n]) : S_ClearAllDone(n, i)
    \/ \E n \in Nodes : \E i \in 1..Len(replyq[n]) : S_ClearMineDel(n, i)
    \/ \E n \in Nodes : \E i \in 1..Len(replyq[n]) : S_ClearMineRewrite(n, i)
    \/ \E n \in Nodes : \E i \in 1..Len(replyq[n]) : S_ClearMineDone(n, i)
    \/ \E n \in Nodes : server = "server.js" /\ AdapterDeliver(n)

\* =================================================================
\* Start-up of a node (server.js, part_000, part_001)
\* =================================================================
\* The programs that are started: the two above and the Yjs relay part_001.
StartPrograms == Programs \cup {"part_001"}

\* a client's connect() resolves
ConnectOk(n, k) ==
    /\ proc[n] = "connect"
    /\ redisClient[n][k] = "connecting"
    /\ redisClient' = [redisClient EXCEPT ![n][k] = "ready"]
    /\ UNCHANGED proc

\* a client's connect() rejects
ConnectFails(n, k) ==
    /\ proc[n] = "connect"
    /\ redisClient[n][k] = "connecting"
    /\ redisClient' = [redisClient EXCEPT ![n][k] = "failed"]
    /\ UNCHANGED proc

\* the catch falls through instead of leaving the process
CatchFallsThrough(procs, n) == [procs EXCEPT ![n] = "io"]

\* catch (error) { ...; process.exit(1) }
Catch(procs, n) == [procs EXCEPT ![n] = "exited"]

\* await Promise.all([...connect()]) rejects: one connect has failed
ConnectRejected(n) ==
    /\ proc[n] = "connect"
    /\ \E k \in RedisClients(server) : redisClient[n][k] = "failed"
    /\ proc' = Catch(proc, n)
    /\ UNCHANGED redisClient

\* await Promise.all([...connect()]) resolves; new Server(server), io.adapter,
\* io.on("connection")
CreateIo(n) ==
    /\ proc[n] = "connect"
    /\ \A k \in RedisClients(server) : redisClient[n][k] = "ready"
    /\ proc' = [proc EXCEPT ![n] = "io"]
    /\ UNCHANGED redisClient

\* server.listen(PORT)
Listen(n) ==
    /\ proc[n] = "io"
    /\ proc' = [proc EXCEPT ![n] = "listening"]
    /\ UNCHANGED redisClient

\* The traffic of a started node is the subject of the other specifications.
StartFrame ==
    UNCHANGED <<server, yjsVars, registerVars, ops, userId, strokes, chan, redisList, replyq, batch, adq,
                board, drawEvents, drawsSeen, drew, drawOps, stamped, tombstones, clearedMine>>

NextStart ==
    \/ \E n \in Nodes, k \in RedisClients(server) : ConnectOk(n, k) /\ StartFrame
    \/ \E n \in Nodes, k \in RedisClients(server) : ConnectFails(n, k) /\ StartFrame
    \/ \E n \in Nodes : ConnectRejected(n) /\ StartFrame
    \/ \E n \in Nodes : CreateIo(n) /\ StartFrame
    \/ \E n \in Nodes : Listen(n) /\ StartFrame

InitStart ==
    /\ server \in StartPrograms
    /\ proc = [n \in Nodes |-> "connect"]
    /\ redisClient = [n \in Nodes |-> [k \in RedisClients(server) |-> "connecting"]]
    /\ NoTraffic

SpecStart == InitStart /\ [][NextStart]_vars

\* =================================================================
\* Yjs whiteboard: client App.jsx, server part_001 (startServer)
\* =================================================================
\* The array "lines" of a document is the sequence of its items in document
\* order.  An item keeps its id <<client, clock>>, the ids of the items that
\* were left and right of it when it was inserted, its deleted flag, and the
\* line it holds.  A line records the session that created it (its `id` is a
\* fresh uuid of that session) and how many points it has.
NoId == <<0, 0>>

Ids(doc) == {doc[i].id : i \in 1..Len(doc)}
IndexOf(doc, id) == IF id = NoId THEN 0 ELSE CHOOSE i \in 1..Len(doc) : doc[i].id = id
IdAt(doc, pos) == IF pos \in 1..Len(doc) THEN doc[pos].id ELSE NoId
InsertAfter(doc, pos, item) == SubSeq(doc, 1, pos) \o <<item>> \o SubSeq(doc, pos + 1, Len(doc))

\* yLines.length, yLines.get(index): deleted items do not count
Shown(doc) == {i \in 1..Len(doc) : ~doc[i].deleted}
Length(doc) == Cardinality(Shown(doc))
PositionOf(doc, index) ==
    CHOOSE i \in Shown(doc) : Cardinality({j \in Shown(doc) : j < i}) = index
Get(doc, index) == doc[PositionOf(doc, index)].line

\* the clock of the next item a client creates in its document
NextClock(doc, client) == Cardinality({i \in 1..Len(doc) : doc[i].id[1] = client})

Item(doc, client, leftPos, line) ==
    [id |-> <<client, NextClock(doc, client)>>, origin |-> IdAt(doc, leftPos),
     rightOrigin |-> IdAt(doc, leftPos + 1), deleted |-> FALSE, line |-> line]

\* yLines.push([line]): after the last item, deleted or not
Push(doc, client, line) == InsertAfter(doc, Len(doc), Item(doc, client, Len(doc), line))

\* yLines.insert(index, [line]): after the index-th item that is not deleted,
\* at the very start for index 0
InsertLeft(doc, index) == IF index = 0 THEN 0 ELSE PositionOf(doc, index - 1)
Insert(doc, client, index, line) ==
    InsertAfter(doc, InsertLeft(doc, index), Item(doc, client, InsertLeft(doc, index), line))

\* yLines.delete(index)
Delete(doc, index) == [doc EXCEPT ![PositionOf(doc, index)].deleted = TRUE]
\* yLines.delete(0, yLines.length)
DeleteAll(doc) == [i \in 1..Len(doc) |-> [doc[i] EXCEPT !.deleted = TRUE]]

\* Where a remote item goes: Yjs scans the items between the item's origin
\* and its right origin; o is the scanned position, left the position the
\* item will follow.
RECURSIVE Conflict(_, _, _, _, _, _)
Conflict(doc, item, o, left, before, conflicting) ==
    IF o > Len(doc) \/ doc[o].id = item.rightOrigin
    THEN left
    ELSE LET other == doc[o]
             b == before \cup {other.id}
             c == conflicting \cup {other.id}
         IN IF other.origin = item.origin
            THEN IF other.id[1] < item.id[1]
                 THEN Conflict(doc, item, o + 1, o, b, {})
                 ELSE IF other.rightOrigin = item.rightOrigin
                      THEN left
                      ELSE Conflict(doc, item, o + 1, left, b, c)
            ELSE IF other.origin /= NoId /\ other.origin \in b
                 THEN IF other.origin \notin c
                      THEN Conflict(doc, item, o + 1, o, b, {})
                      ELSE Conflict(doc, item, o + 1, left, b, c)
                 ELSE left

Integrate(doc, item) ==
    InsertAfter(doc, Conflict(doc, item, IndexOf(doc, item.origin) + 1, IndexOf(doc, item.origin), {}, {}), item)

\* The items of an update are integrated once the items they refer to are
\* there, lowest client and clock first.
Known(doc, id) == id = NoId \/ id \in Ids(doc)
RECURSIVE ApplyStructs(_, _)
ApplyStructs(doc, missing) ==
    IF missing = {} THEN doc
    ELSE LET ready == {it \in missing : Known(doc, it.origin) /\ Known(doc, it.rightOrigin)}
             next == CHOOSE x \in ready : \A y \in ready :
                        x.id[1] < y.id[1] \/ (x.id[1] = y.id[1] /\ x.id[2] <= y.id[2])
         IN ApplyStructs(Integrate(doc, next), missing \ {next})

\* Y.encodeStateAsUpdate(ydoc): every item and every deletion of the document
EncodeStateAsUpdate(doc) == doc

\* Y.applyUpdate(doc, update): the items the document lacks are integrated,
\* the items the update deletes are deleted.
ApplyUpdate(doc, update) ==
    LET merged == ApplyStructs(doc, {update[i] : i \in {j \in 1..Len(update) : update[j].id \notin Ids(doc)}})
        deletions == {update[i].id : i \in {j \in 1..Len(update) : update[j].deleted}}
    IN [i \in 1..Len(merged) |-> [merged[i] EXCEPT !.deleted = @ \/ merged[i].id \in deletions]]

\* socket.emit("sync-update", update) of a session
BroadcastUpdate(s, doc) == up' = [up EXCEPT ![s] = Append(@, EncodeStateAsUpdate(doc))]

\* io.on("connection"): the node sends its document as sync-initial
Y_Connect(s) ==
    /\ s \notin connected
    /\ connected' = connected \cup {s}
    /\ down' = [down EXCEPT ![s] = Append(@, EncodeStateAsUpdate(serverDoc[NodeOf(s)]))]
    /\ UNCHANGED <<wbVars, clientID, ydoc, isDrawing, serverDoc, up, yadq, yops>>

\* socket.on("sync-initial") and socket.on("sync-update") of the client
Y_ClientReceive(s) ==
    /\ down[s] /= <<>>
    /\ ydoc' = [ydoc EXCEPT ![s] = ApplyUpdate(@, Head(down[s]))]
    /\ down' = [down EXCEPT ![s] = Tail(@)]
    /\ UNCHANGED <<wbVars, clientID, connected, isDrawing, serverDoc, up, yadq, yops>>

NewLine(s) == [owner |-> s, points |-> 1]

Y_StartDrawing(s) ==
    /\ s \in connected
    /\ yops < MaxYjsOps
    /\ yops' = yops + 1
    /\ isDrawing' = [isDrawing EXCEPT ![s] = TRUE]
    /\ ydoc' = [ydoc EXCEPT ![s] = Push(@, clientID[s], NewLine(s))]
    /\ BroadcastUpdate(s, ydoc'[s])
    /\ UNCHANGED <<wbVars, clientID, connected, serverDoc, down, yadq>>

\* the line `draw` of a session extends
LastLineIndex(s) == Length(ydoc[s]) - 1
CurrentLine(s) == Get(ydoc[s], LastLineIndex(s))

Y_Draw(s) ==
    /\ s \in connected
    /\ yops < MaxYjsOps
    /\ isDrawing[s]
    /\ LastLineIndex(s) >= 0
    /\ yops' = yops + 1
    /\ ydoc' = [ydoc EXCEPT ![s] =
                  Insert(Delete(@, LastLineIndex(s)), clientID[s], LastLineIndex(s),
                         [CurrentLine(s) EXCEPT !.points = @ + 1])]
    /\ BroadcastUpdate(s, ydoc'[s])
    /\ UNCHANGED <<wbVars, clientID, connected, isDrawing, serverDoc, down, yadq>>

Y_EndDrawing(s) ==
    /\ s \in connected
    /\ yops < MaxYjsOps
    /\ isDrawing[s]
    /\ yops' = yops + 1
    /\ isDrawing' = [isDrawing EXCEPT ![s] = FALSE]
    /\ BroadcastUpdate(s, ydoc[s])
    /\ UNCHANGED <<wbVars, clientID, connected, ydoc, serverDoc, down, yadq>>

Y_HandleClear(s) ==
    /\ s \in connected
    /\ yops < MaxYjsOps
    /\ yops' = yops + 1
    /\ ydoc' = [ydoc EXCEPT ![s] = DeleteAll(@)]
    /\ BroadcastUpdate(s, ydoc'[s])
    /\ UNCHANGED <<wbVars, clientID, connected, isDrawing, serverDoc, down, yadq>>

\* socket.on("sync-update") of the server: the node merges the update into
\* its document; socket.broadcast.emit sends it to the node's other sockets
\* and, through the adapter, to the other nodes.
Y_ServerReceive(s) ==
    /\ up[s] /= <<>>
    /\ LET update == Head(up[s])
           n == NodeOf(s)
       IN /\ serverDoc' = [serverDoc EXCEPT ![n] = ApplyUpdate(@, update)]
          /\ down' = [c \in Conns |->
                        IF c \in (Local(n) \cap connected) \ {s} THEN Append(down[c], update) ELSE down[c]]
          /\ yadq' = [m \in Nodes |-> IF m /= n THEN Append(yadq[m], update) ELSE yadq[m]]
    /\ up' = [up EXCEPT ![s] = Tail(@)]
    /\ UNCHANGED <<wbVars, clientID, connected, ydoc, isDrawing, yops>>

\* the adapter of a node hands a broadcast of another node to the node's sockets
Y_AdapterDeliver(n) ==
    /\ yadq[n] /= <<>>
    /\ down' = [c \in Conns |->
                  IF c \in Local(n) \cap connected THEN Append(down[c], Head(yadq[n])) ELSE down[c]]
    /\ yadq' = [yadq EXCEPT ![n] = Tail(@)]
    /\ UNCHANGED <<wbVars, clientID, connected, ydoc, isDrawing, serverDoc, up, yops>>

NextYjs ==
    \/ \E s \in Conns : Y_Connect(s)
    \/ \E s \in Conns : Y_ClientReceive(s)
    \/ \E s \in Conns : Y_StartDrawing(s)
    \/ \E s \in Conns : Y_Draw(s)
    \/ \E s \in Conns : Y_EndDrawing(s)
    \/ \E s \in Conns : Y_HandleClear(s)
    \/ \E s \in Conns : Y_ServerReceive(s)
    \/ \E n \in Nodes : Y_AdapterDeliver(n)

InitYjs == server = "part_001" /\ Started /\ NoTraffic
SpecYjs == InitYjs /\ [][NextYjs]_vars

Next == NextPubSub \/ NextRedis

InitPubSub == Init /\ server = "part_000"
InitRedis == Init /\ server = "server.js"
SpecPubSub == InitPubSub /\ [][NextPubSub]_vars
SpecRedis == InitRedis /\ [][NextRedis]_vars
SpecSeq == InitRedis /\ [][NextSeq]_vars

\* The broker hands every node each message it holds for it.
FairDelivery ==
    \A n \in Nodes : WF_vars(\E message \in BagToSet(chan[n]) : P_Deliver(n, message))
SpecPubSubFair == SpecPubSub /\ FairDelivery

Spec == Init /\ [][Next]_vars

\* =================================================================
\* Properties
\* =================================================================
\* No message, suspended handler or forwarded broadcast is pending.
Quiescent ==
    \A n \in Nodes : chan[n] = EmptyBag /\ replyq[n] = <<>> /\ adq[n] = <<>>

\* The visible stroke set of a part_000 store.
Visible(ss) == Range(ss)

\* C1 (convergence): every published message reaches every node's
\* subscription handler, so once the channel has drained the nodes have
\* handled the same multiset of messages; their stores then hold the same
\* visible stroke set.
C1_Convergence ==
    (\A n \in Nodes : chan[n] = EmptyBag)
        => \A n1, n2 \in Nodes : Visible(strokes[n1]) = Visible(strokes[n2])

\* C2 (idempotence): storing a stroke that the store already holds changes
\* nothing: no step raises the number of copies of a stroke that is already
\* in a node's `strokes` or in the Redis list.
C2_Idempotence ==
    [][/\ \A n \in Nodes : \A s \in Range(strokes[n]) :
              Count(s, strokes'[n]) <= Count(s, strokes[n])
       /\ \A str \in Range(redisList) :
              Count(str, redisList') <= Count(str, redisList)]_vars

\* C3 (delete wins): a stroke that a clear has deleted from the Redis list
\* (tombstones: deleted, and not drawn again since) is not in the list.
C3_DeleteWins == \A s \in tombstones : s \notin Stored

\* C4 (per-user clear completeness): once nothing is in flight, no stroke
\* that a clear-mine deleted for its owner (clearedMine: deleted, and not
\* drawn again since) is in the Redis list.
C4_ClearMineComplete ==
    Quiescent => \A s \in clearedMine : s \notin Stored

\* C5 (late join): once every pending event is delivered, a connection that
\* registered (l) shows the same board as a connection that has been
\* connected since the start without registering (e), whose board is the
\* empty initial board followed by every live event; neither has drawn.
C5_LateJoin ==
    Quiescent =>
        \A l, e \in Conns \ drew :
            (userId[l] /= Null /\ userId[e] = Null) => board[l] = board[e]

\* Every stroke the servers hold or have sent: in a store, on the channel,
\* in a suspended handler, in a forwarded broadcast, on a client.
HandlerStrokes(n) ==
    UNION {Range(replyq[n][i].strokes) \cup Range(replyq[n][i].remainingStrokes)
             \cup (IF replyq[n][i].kind = "draw" THEN {replyq[n][i].withUser} ELSE {})
           : i \in 1..Len(replyq[n])}
ChannelStrokes(n) ==
    {ParseEnvelope(m).data : m \in {x \in BagToSet(chan[n]) : x[1] = "draw"}}
ForwardedStrokes(n) == UNION {Range(adq[n][i].strokes) : i \in 1..Len(adq[n])}
AllStrokes ==
    Stored
    \cup UNION {Range(strokes[n]) \cup ChannelStrokes(n) \cup HandlerStrokes(n)
                  \cup ForwardedStrokes(n) : n \in Nodes}
    \cup UNION {board[c] \cup drawEvents[c] : c \in Conns}

\* C6 (server-side attribution): every stroke stored, published or broadcast
\* is a drawn stroke carrying the user id its connection had at the server
\* when it was drawn, whatever userId the payload named.
C6_Attribution == AllStrokes \subseteq stamped

\* C6's case: a draw whose payload named another user id than its
\* connection's has been stored, under the connection's id.
C6_Witness ==
    \E n \in Nodes : \E i \in 1..Len(replyq[n]) :
        LET task == replyq[n][i] IN
        /\ task.kind = "draw"
        /\ task.data.userId /= Null
        /\ task.data.userId /= task.withUser.userId
        /\ task.withUser \in Stored

\* A draw, clear-all or clear-mine event of connection c is handled.
MutatingEvent(c) ==
    \/ \E data \in Payloads : S_Draw(c, data) \/ P_Draw(c, data)
    \/ S_ClearAll(c) \/ P_ClearAll(c)
    \/ S_ClearMine(c) \/ P_ClearMine(c)

\* C7 (registered only): a mutating event on a connection that has not
\* registered (userId is null) changes neither the stores nor what is
\* published or awaits broadcast.
C7_RegisteredOnly ==
    [][\A c \in Conns :
          (userId[c] = Null /\ MutatingEvent(c))
              => UNCHANGED <<strokes, redisList, chan, replyq, adq>>]_vars

\* C8 (identity fixed once set): no step changes the user id of a
\* connection that has one.
C8_IdentityFixed ==
    [][\A c \in Conns : userId[c] /= Null => userId'[c] = userId[c]]_vars

\* C9 (clear expanded before broadcast): no message on "whiteboard-events"
\* is the abstract clear-user command.
C9_ClearExpanded ==
    \A n \in Nodes : \A m \in BagToSet(chan[n]) : ParseEnvelope(m).type /= "clear-user"

\* C10 (no echo): a connection is never sent a draw event for a stroke it
\* drew itself; stated for the strokes that carry the connection's derived
\* user id, which no other connection can hold.
C10_NoEcho ==
    \A c \in Conns : \A s \in drawEvents[c] : s.userId /= DerivedUserId(c)

\* C11 (fail fast): a node that has created its Socket.IO server or listens
\* has every one of its Redis clients connected.
C11_FailFast ==
    \A n \in Nodes :
        proc[n] \in {"io", "listening"}
            => \A k \in RedisClients(server) : redisClient[n][k] = "ready"

\* C11's case: a connect failed and the process has left without listening.
C11_Witness ==
    \E n \in Nodes :
        /\ proc[n] = "exited"
        /\ \E k \in RedisClients(server) : redisClient[n][k] = "failed"

\* C12 (draw committed locally): when the publish of a draw fails, the
\* node that accepted the draw holds the stroke in its own `strokes` as soon
\* as the handler has run.
C12_LocalCommit ==
    [][\A c \in Conns : \A data \in Payloads :
          P_DrawPublishFails(c, data)
              => WithUser(data, userId[c]) \in Range(strokes'[NodeOf(c)])]_vars

\* C13 (read failure while registering): when the register handler whose
\* read of the list failed resumes, the connection, which has been sent its
\* user-info, is sent an init-board with no strokes and so shows an empty
\* board; it keeps its user id and the Redis list is as it was.
C13_ReadFailure ==
    [][\A n \in Nodes : \A i \in 1..Len(replyq[n]) :
          (S_RegisterDone(n, i) /\ readFailure[replyq[n][i].conn] = "pending")
              => LET c == replyq[n][i].conn IN
                 /\ userInfo[c] /= Null /\ userInfo[c] = userId[c]
                 /\ board'[c] = {}
                 /\ userId'[c] = userId[c]
                 /\ redisList' = redisList]_vars

\* C13's case: a connection whose read failed has been sent its init-board
\* while the Redis list held a stroke: it has drawn nothing itself, nothing
\* is pending, the list holds a stroke and its board is empty.
C13_Witness ==
    \E c \in Conns \ drew :
        /\ readFailure[c] = "served"
        /\ board[c] = {}
        /\ redisList /= <<>>
        /\ \A n \in Nodes : replyq[n] = <<>> /\ adq[n] = <<>>

\* The strokes a draw can produce.
OwnerIds == Users \cup {Null} \cup {DerivedUserId(c) : c \in Conns}
Strokes == [id : StrokeIds, userId : OwnerIds]

\* the message a draw of stroke s puts on "whiteboard-events"
DrawMessage(s) == StringifyEnvelope("draw", s, Null)

\* C14 (scenario A as liveness): a draw puts its message on the channel of
\* every node; under fair delivery a node that has the message of stroke s
\* pending eventually holds s in its `strokes` and has sent it as a draw
\* event to each of its clients.
C14_Liveness ==
    \A n \in Nodes : \A s \in Strokes :
        (DrawMessage(s) \in BagToSet(chan[n]))
            ~> (s \in Range(strokes[n]) /\ \A c \in Local(n) : s \in drawEvents[c])

\* C14's case: a stroke drawn by a client of node n1 only is in the store
\* of node n2 and has been sent to n2's client.
C14_Witness ==
    /\ drew /= {} /\ drew \subseteq Local("n1")
    /\ \E s \in Strokes : s \in Range(strokes["n2"]) /\ s \in drawEvents["c"]

\* C15 (receipt order on one connection): the delete-all step of a
\* clear-mine does not delete the stroke of a draw that the same connection
\* sent after the clear-mine (the draw's handler is behind the clear-mine's
\* among the node's suspended handlers).
C15_ReceiptOrder ==
    [][\A n \in Nodes : \A i, j \in 1..Len(replyq[n]) :
          (/\ S_ClearMineDel(n, i)
           /\ i < j
           /\ replyq[n][j].kind = "draw"
           /\ replyq[n][j].conn = replyq[n][i].conn)
              => replyq[n][j].withUser \in Stored']_vars

\* C16 (chronological order): getFullBoardState returns the strokes in draw
\* order: a draw adds its stroke at the end of what it returns, and after a
\* clear-mine has rewritten the surviving strokes it returns them in the
\* order in which the clear-mine read them.
C16_Chronological ==
    [][/\ \A c \in Conns : \A data \in SeqPayloads :
             S_Draw(c, data)
                 => GetFullBoardState(redisList')
                      = Append(GetFullBoardState(redisList), WithUser(data, userId[c]))
       /\ \A n \in Nodes : \A i \in 1..Len(replyq[n]) :
             S_ClearMineRewrite(n, i)
                 => GetFullBoardState(redisList') = replyq[n][i].remainingStrokes]_vars

\* A stroke that was drawn and is in the Redis list no more although no clear
\* has covered it since it was last drawn.
Lost == {s \in stamped : s \notin Stored /\ s \notin tombstones}

\* C17 (clear-mine is not atomic): whatever has been pushed to the Redis list
\* since a clear-mine read it is removed by the clear-mine's delete-all and is
\* not among the strokes it writes back and sends as reset-board.
C17_NotAtomic ==
    [][\A n \in Nodes : \A i \in 1..Len(replyq[n]) :
          S_ClearMineDel(n, i)
              => \A s \in Stored \ Range(replyq[n][i].strokes) :
                    /\ s \notin Stored'
                    /\ s \notin Range(replyq'[n][Len(replyq'[n])].remainingStrokes)]_vars

\* C17's case: with nothing pending, a stroke that was broadcast to clients
\* is lost from the Redis list, though no clear covered it, and is on no
\* client's board after the reset-board.
C17_Witness ==
    /\ Quiescent
    /\ \E s \in Lost :
          /\ \E c \in Conns : s \in drawEvents[c]
          /\ \A c \in Conns : s \notin board[c]

\* C19 (clear-mine removes only its user's strokes): handlers running one at
\* a time, once none is suspended every stroke that was drawn and that no
\* clear has covered since is in the Redis list, also after a clear-mine
\* whose read of the list failed.
C19_OnlyMine == AllIdle => Lost = {}

\* C18: in the Yjs client, a draw event of a session extends (deletes and
\* inserts again with one more point) only a line that the session itself
\* started, also when a line of another session was merged into the array
\* since the session's startDrawing.
C18_OwnStrokeOnly ==
    [][\A s \in Conns : Y_Draw(s) => CurrentLine(s).owner = s]_vars

\* C20 (no duplicates with two nodes): a connection has been sent at most
\* as many draw events as draw operations were made.
C20_AtMostOnce == \A c \in Conns : drawsSeen[c] <= drawOps

\* C21 (the Yjs server document of a node holds what the node relayed): every
\* item of an update sent to a connected client of a node, as sync-initial or
\* as sync-update, also one that came from another node through the adapter,
\* is in the document of that node.
C21_ServerDocHoldsRelayed ==
    \A c \in connected : \A i \in 1..Len(down[c]) :
        Ids(down[c][i]) \subseteq Ids(serverDoc[NodeOf(c)])

\* C22 (boards equal the Redis list at rest): in server.js, once no handler
\* is suspended and no broadcast is pending, the board of every registered
\* connection that has not drawn itself (so that its board is exactly what
\* init-board, reset-board, draw and clear-all events left) is the content
\* of the Redis list, also after a draw and a clear-all raced on two nodes.
C22_BoardsEqualList ==
    (server = "server.js" /\ Quiescent)
        => \A c \in Conns \ drew : userId[c] /= Null => board[c] = Stored

====
